---- MODULE Spec2Model ----
(***************************************************************************)
(* Model of the zevals core: the eval runner (eval-runner.ts evaluate),    *)
(* the four segment variants (segment.ts) and the collaborators they call  *)
(* (agent, synthetic user, criteria).  One run of evaluate() is one        *)
(* behaviour; every await of the code is a step boundary.                  *)
(***************************************************************************)
EXTENDS Integers, Sequences, FiniteSets, TLC

\* Longest scenario (segments array) explored.
MaxSegments == 3
\* Largest explicit `max` given to userSimulation.
MaxTurns == 1
\* Longest message list given to the tools-called criteria.
MaxMessages == 2
\* Most tool calls in one assistant message, and most tool call assertions.
MaxToolCalls == 2
\* segment.ts:80  const maxIterations = max ?? 10
DefaultMax == 10

VARIABLES
  segments,                  \* the scenario passed to evaluate()
  pc,                        \* position of the run
  i,                         \* eval-runner.ts:40 loop index (0-based)
  evaluatedSegmentPromises,  \* eval-runner.ts:38
  previousActualMessages,    \* eval-runner.ts:43, as handed to the running segment
  segmentResult,             \* the list the running segment builds and returns
  simI,                      \* segment.ts:82 loop index of userSimulation
  messages,                  \* segment.ts:83 local transcript of userSimulation
  promises,                  \* every evalResult promise created in this run
  settleOrder,               \* ids of promises in the order they settled
  report,                    \* the value evaluate() resolves with, <<>> before that
  err,                       \* what made evaluate() reject, "none" otherwise
  calls,                     \* log of calls made to the collaborators
  emitted,                   \* log of entries emitted by segments, with the segment index
  agent,                     \* eval-runner.ts:28 the `agent` argument: an agent or a factory
  agentResolved,             \* eval-runner.ts:36 `_agent`, <<>> before it is resolved
  fn,                        \* the criterion function applied on its own, "none" before
  arg,                       \* the input of that application
  ret                        \* its outcome, <<>> before

\* the state of one run of evaluate()
runVars == <<segments, pc, i, evaluatedSegmentPromises, previousActualMessages,
             segmentResult, simI, messages, promises, settleOrder, report, err,
             calls, emitted, agent, agentResolved>>

\* the state of one application of a criterion
fnVars == <<fn, arg, ret>>

vars == <<runVars, fnVars>>

----------------------------------------------------------------------------
\* Data

\* criterion.ts:4-8 -- criterion instances, compared by reference
Criteria == {"c1", "c2"}

\* criterion.ts:21 -- status?: 'success' | 'failure'; "undefined" is the missing status
Statuses == {"success", "failure", "undefined"}

\* criterion.ts:14-22
CriterionResult(s) == [status |-> s]

\* message.ts:13 / message.ts:20 -- literal messages used by message(...) segments
LiteralMessages ==
  { [role |-> "user", content |-> <<"lit", 1>>],
    [role |-> "system", content |-> <<"lit", 2>>] }

\* message.ts:14-19
ToolMessage == [role |-> "tool", name |-> "search", content |-> <<"lit", 3>>]

\* segment.ts:22-56 -- the values message, agentResponse and aiEval return
PlainSegments ==
  { [type |-> "message", message |-> m] : m \in LiteralMessages }
  \cup { [type |-> "agentResponse"] }
  \cup { [type |-> "aiEval", criterion |-> "c1"] }

\* segment.ts:67-75 -- userSimulation({user, until, max}) with `max` given
BoundedSimulations ==
  { [type |-> "userSimulation", until |-> "c2", max |-> <<n>>] : n \in 0..MaxTurns }

\* segment.ts:67-75 -- userSimulation({user, until}), `max` left out
DefaultSimulation == [type |-> "userSimulation", until |-> "c2", max |-> <<>>]

\* eval-runner.ts:33-34 -- scenarios whose simulations all give `max`
Scenarios ==
  UNION { [1..n -> PlainSegments \cup BoundedSimulations] : n \in 0..MaxSegments }

\* eval-runner.ts:33-34 -- scenarios around one userSimulation, with or without
\* `max`: before it and after it nothing, one segment, or a message and an aiEval
SimulationScenarios ==
  LET around == {<<>>} \cup { <<sg>> : sg \in PlainSegments }
                      \cup { <<[type |-> "message", message |-> ToolMessage]>> }
                      \cup { <<[type |-> "message",
                               message |-> [role |-> "user", content |-> <<"lit", 1>>]],
                              [type |-> "aiEval", criterion |-> "c1"]>> }
  IN { pre \o <<sim>> \o post :
         pre \in around, post \in around,
         sim \in BoundedSimulations \cup {DefaultSimulation} }

\* segment.ts:80
MaxIterations(seg) == IF seg.max = <<>> THEN DefaultMax ELSE seg.max[1]

\* eval-runner.ts:43-45, eval-runner.ts:83, segment.ts:84
RECURSIVE MessagesOf(_)
MessagesOf(entries) ==
  IF entries = <<>> THEN <<>>
  ELSE LET rest == MessagesOf(Tail(entries))
       IN IF Head(entries).type = "message"
          THEN <<Head(entries).message>> \o rest
          ELSE rest

FlipRoles_KeepsOthers(ms) ==
  [k \in 1..Len(ms) |->
     IF ms[k].role = "user" THEN [role |-> "assistant", content |-> ms[k].content]
     ELSE IF ms[k].role = "assistant" THEN [role |-> "user", content |-> ms[k].content]
     ELSE ms[k]]

\* segment.ts:88-94 -- the role-swapped view handed to the synthetic user
RECURSIVE FlipRoles(_)
FlipRoles(ms) ==
  IF ms = <<>> THEN <<>>
  ELSE LET m == Head(ms)
           rest == FlipRoles(Tail(ms))
       IN IF m.role = "user"
          THEN <<[role |-> "assistant", content |-> m.content]>> \o rest
          ELSE IF m.role = "assistant"
               THEN <<[role |-> "user", content |-> m.content]>> \o rest
               ELSE rest

CallsOf(who) == SelectSeq(calls, LAMBDA c : c.who = who)

\* agent.ts Agent.invoke -- the stub agent answers with its invocation number
AgentReply == [role |-> "assistant", content |-> <<"agent", Len(CallsOf("agent"))>>]

\* segment.ts:7 SyntheticUser.respond -- the stub user answers with its call number
UserReply == [role |-> "user", content |-> <<"user", Len(CallsOf("user"))>>]

Seg == segments[i + 1]

Emit(entries) == emitted \o [k \in 1..Len(entries) |-> [seg |-> i, entry |-> entries[k]]]

Throw_Swallowed(cause) == pc' = "return" /\ err' = cause

\* eval-runner.ts:47, eval-runner.ts:52 -- nothing catches: an error thrown below
\* evaluate() rejects the promise evaluate() returned
Throw(cause) == pc' = "aborted" /\ err' = cause

TranscriptEmpty_Never(ms) == FALSE

\* segment.ts:45
TranscriptEmpty(ms) == Len(ms) = 0

----------------------------------------------------------------------------
\* eval-runner.ts:27-38 -- the state of a run before its first segment
Start ==
  /\ pc = "init"
  /\ i = 0
  /\ evaluatedSegmentPromises = <<>>
  /\ previousActualMessages = <<>>
  /\ segmentResult = <<>>
  /\ simI = 0
  /\ messages = <<>>
  /\ promises = <<>>
  /\ settleOrder = <<>>
  /\ report = <<>>
  /\ err = "none"
  /\ calls = <<>>
  /\ emitted = <<>>
  /\ agentResolved = <<>>
  /\ fn = "none"
  /\ ret = <<>>

\* eval-runner.ts:28 -- `agent` is the agent itself or a factory of it
AgentArguments == {"agent", "factory"}

Init == segments \in Scenarios /\ agent = "agent" /\ arg = <<>> /\ Start

InitSimulation ==
  segments \in SimulationScenarios /\ agent \in AgentArguments /\ arg = <<>> /\ Start

\* agent.ts Agent -- the agent the n-th call of the factory makes; 0 is the agent
\* that was passed directly
AgentInstance(n) == <<"agent", n>>

ResolveAgent_NotCalled ==
  /\ pc = "init"
  /\ agentResolved' = <<AgentInstance(0)>>
  /\ pc' = "loop"
  /\ UNCHANGED <<fnVars, agent, segments, i, evaluatedSegmentPromises,
                 previousActualMessages, segmentResult, simI, messages, promises,
                 settleOrder, report, err, calls, emitted>>

\* eval-runner.ts:36 -- const _agent = typeof agent === 'function' ? await agent() : agent
ResolveAgent ==
  /\ pc = "init"
  /\ IF agent = "factory"
     THEN /\ calls' = Append(calls, [seg |-> -1, who |-> "factory"])
          /\ \E ok \in BOOLEAN :
               IF ok
               THEN /\ agentResolved' = <<AgentInstance(Len(CallsOf("factory")) + 1)>>
                    /\ pc' = "loop"
                    /\ err' = err
               ELSE /\ Throw("factory")
                    /\ agentResolved' = agentResolved
     ELSE /\ agentResolved' = <<AgentInstance(0)>>
          /\ pc' = "loop"
          /\ UNCHANGED <<calls, err>>
  /\ UNCHANGED <<fnVars, agent, segments, i, evaluatedSegmentPromises,
                 previousActualMessages, segmentResult, simI, messages, promises,
                 settleOrder, report, emitted>>

PreviousActualMessages_Hoisted == <<>>

\* eval-runner.ts:43-45
PreviousActualMessages == MessagesOf(evaluatedSegmentPromises)

\* eval-runner.ts:40-47 -- loop head up to the call of segment.evaluate
StartSegment ==
  /\ pc = "loop"
  /\ i < Len(segments)
  /\ previousActualMessages' = PreviousActualMessages
  /\ segmentResult' = <<>>
  /\ pc' = "evaluate"
  /\ UNCHANGED <<fnVars, agent, agentResolved, segments, i, evaluatedSegmentPromises, simI, messages, promises,
                 settleOrder, report, err, calls, emitted>>

\* segment.ts:24-26
MessageEvaluate ==
  /\ pc = "evaluate"
  /\ Seg.type = "message"
  /\ LET out == <<[type |-> "message", message |-> Seg.message]>>
     IN /\ segmentResult' = out
        /\ emitted' = Emit(out)
  /\ pc' = "return"
  /\ UNCHANGED <<fnVars, agent, agentResolved, segments, i, evaluatedSegmentPromises, previousActualMessages, simI,
                 messages, promises, settleOrder, report, err, calls>>

\* segment.ts:33-34 -- agent.invoke is called; the segment waits for its answer
AgentResponseEvaluate ==
  /\ pc = "evaluate"
  /\ Seg.type = "agentResponse"
  /\ calls' = Append(calls, [seg |-> i, who |-> "agent", agent |-> agentResolved[1],
                          messages |-> previousActualMessages])
  /\ pc' = "agent_wait"
  /\ UNCHANGED <<fnVars, agent, agentResolved, segments, i, evaluatedSegmentPromises,
                 previousActualMessages, segmentResult, simI, messages, promises,
                 settleOrder, report, err, emitted>>

\* segment.ts:34-37 -- the agent answers, or its promise rejects
AgentResponseAnswer ==
  /\ pc = "agent_wait"
  /\ \E ok \in BOOLEAN :
       IF ok
       THEN LET out == <<[type |-> "message", message |-> AgentReply]>>
            IN /\ segmentResult' = out
               /\ emitted' = Emit(out)
               /\ pc' = "return"
               /\ err' = err
       ELSE /\ Throw("agent")
            /\ UNCHANGED <<segmentResult, emitted>>
  /\ UNCHANGED <<fnVars, agent, agentResolved, segments, i, evaluatedSegmentPromises,
                 previousActualMessages, simI, messages, promises, settleOrder, report,
                 calls>>

CarriedPromise_Awaited == [state |-> "fulfilled", value |-> CriterionResult("success")]

\* segment.ts:49-53 -- the promise criterion.evaluate returned, stored as evalResult
\* without being awaited
CarriedPromise == [state |-> "pending"]

\* segment.ts:44-54
AiEvalEvaluate ==
  /\ pc = "evaluate"
  /\ Seg.type = "aiEval"
  /\ IF TranscriptEmpty(previousActualMessages)
     THEN /\ Throw("precondition")
          /\ UNCHANGED <<segmentResult, emitted, promises, calls>>
     ELSE LET out == <<[type |-> "eval", evalResult |-> Len(promises) + 1,
                        criterion |-> Seg.criterion]>>
          IN /\ calls' = Append(calls, [seg |-> i, who |-> "criterion",
                                        criterion |-> Seg.criterion,
                                        messages |-> previousActualMessages])
             /\ promises' = Append(promises, CarriedPromise)
             /\ segmentResult' = out
             /\ emitted' = Emit(out)
             /\ pc' = "return"
             /\ err' = err
  /\ UNCHANGED <<fnVars, agent, agentResolved, segments, i, evaluatedSegmentPromises, previousActualMessages, simI,
                 messages, settleOrder, report>>

\* segment.ts:77-82 -- entry of userSimulation's evaluate, up to the loop head
UserSimulationEvaluate ==
  /\ pc = "evaluate"
  /\ Seg.type = "userSimulation"
  /\ segmentResult' = <<>>
  /\ simI' = 0
  /\ pc' = "sim_loop"
  /\ UNCHANGED <<fnVars, agent, agentResolved, segments, i, evaluatedSegmentPromises, previousActualMessages,
                 messages, promises, settleOrder, report, err, calls, emitted>>

\* segment.ts:82-94 -- loop test, the local transcript, the role-swapped view, and
\* the call of user.respond; the segment waits for its answer
SimUserRespond ==
  /\ pc = "sim_loop"
  /\ simI < MaxIterations(Seg)
  /\ LET ms == previousActualMessages \o MessagesOf(segmentResult)
     IN /\ calls' = Append(calls, [seg |-> i, who |-> "user", messages |-> FlipRoles(ms)])
        /\ messages' = ms
  /\ pc' = "sim_user_wait"
  /\ UNCHANGED <<fnVars, agent, agentResolved, segments, i, evaluatedSegmentPromises,
                 previousActualMessages, segmentResult, simI, promises, settleOrder,
                 report, err, emitted>>

SimUserAnswer_NoPush ==
  /\ pc = "sim_user_wait"
  /\ \E ok \in BOOLEAN :
       IF ok
       THEN LET m == [role |-> "user", content |-> UserReply.content]
                out == <<[type |-> "message", message |-> m]>>
            IN /\ segmentResult' = segmentResult \o out
               /\ emitted' = Emit(out)
               /\ messages' = messages
               /\ pc' = "sim_agent"
               /\ err' = err
       ELSE /\ Throw("user")
            /\ UNCHANGED <<segmentResult, emitted, messages>>
  /\ UNCHANGED <<fnVars, agent, agentResolved, segments, i, evaluatedSegmentPromises,
                 previousActualMessages, simI, promises, settleOrder, report, calls>>

\* segment.ts:86-100 -- the synthetic user answers, or its promise rejects
SimUserAnswer ==
  /\ pc = "sim_user_wait"
  /\ \E ok \in BOOLEAN :
       IF ok
       THEN LET m == [role |-> "user", content |-> UserReply.content]
                out == <<[type |-> "message", message |-> m]>>
            IN /\ segmentResult' = segmentResult \o out
               /\ emitted' = Emit(out)
               /\ messages' = Append(messages, m)
               /\ pc' = "sim_agent"
               /\ err' = err
       ELSE /\ Throw("user")
            /\ UNCHANGED <<segmentResult, emitted, messages>>
  /\ UNCHANGED <<fnVars, agent, agentResolved, segments, i, evaluatedSegmentPromises,
                 previousActualMessages, simI, promises, settleOrder, report, calls>>

\* segment.ts:82, segment.ts:134 -- the loop test fails: fall through to the last return
SimLoopExit ==
  /\ pc = "sim_loop"
  /\ ~(simI < MaxIterations(Seg))
  /\ pc' = "return"
  /\ UNCHANGED <<fnVars, agent, agentResolved, segments, i, evaluatedSegmentPromises, previousActualMessages,
                 segmentResult, simI, messages, promises, settleOrder, report, err,
                 calls, emitted>>

\* segment.ts:102-104 -- agent.invoke is called; the segment waits for its answer
SimAgentInvoke ==
  /\ pc = "sim_agent"
  /\ calls' = Append(calls, [seg |-> i, who |-> "agent", agent |-> agentResolved[1],
                          messages |-> messages])
  /\ pc' = "sim_agent_wait"
  /\ UNCHANGED <<fnVars, agent, agentResolved, segments, i, evaluatedSegmentPromises,
                 previousActualMessages, segmentResult, simI, messages, promises,
                 settleOrder, report, err, emitted>>

\* segment.ts:102-107 -- the agent answers, or its promise rejects
SimAgentAnswer ==
  /\ pc = "sim_agent_wait"
  /\ \E ok \in BOOLEAN :
       IF ok
       THEN LET out == <<[type |-> "message", message |-> AgentReply]>>
            IN /\ segmentResult' = segmentResult \o out
               /\ emitted' = Emit(out)
               /\ messages' = Append(messages, AgentReply)
               /\ pc' = "sim_until"
               /\ err' = err
       ELSE /\ Throw("agent")
            /\ UNCHANGED <<segmentResult, emitted, messages>>
  /\ UNCHANGED <<fnVars, agent, agentResolved, segments, i, evaluatedSegmentPromises,
                 previousActualMessages, simI, promises, settleOrder, report, calls>>

BreakConditionMet_Never(breakConditionResult) == FALSE

\* segment.ts:112 -- the break test
BreakConditionMet(breakConditionResult) == breakConditionResult.status = "success"

MaxReached_OffByOne(seg, n) == n = MaxIterations(seg)

\* segment.ts:123 -- the exhaustion test
MaxReached(seg, n) == n = MaxIterations(seg) - 1

\* segment.ts:109 -- until.evaluate is called; the segment waits for its answer
\* (`success` of the logged call is set when the answer comes)
SimUntilEvaluate ==
  /\ pc = "sim_until"
  /\ calls' = Append(calls, [seg |-> i, who |-> "until", criterion |-> Seg.until,
                            messages |-> messages, success |-> FALSE])
  /\ pc' = "sim_until_wait"
  /\ UNCHANGED <<fnVars, agent, agentResolved, segments, i, evaluatedSegmentPromises,
                 previousActualMessages, segmentResult, simI, messages, promises,
                 settleOrder, report, err, emitted>>

\* segment.ts:109-132 -- `until` answers (or rejects), then break / exhaustion /
\* next iteration
SimUntilAnswer ==
  /\ pc = "sim_until_wait"
  /\ \E outcome \in Statuses \cup {"reject"} :
       IF outcome = "reject"
       THEN /\ Throw("until")
            /\ UNCHANGED <<segmentResult, emitted, promises, settleOrder, simI, calls>>
       ELSE LET breakConditionResult == CriterionResult(outcome)
                out == <<[type |-> "eval", evalResult |-> Len(promises) + 1,
                          criterion |-> Seg.until]>>
            IN /\ calls' = [calls EXCEPT ![Len(calls)].success = (outcome = "success")]
               /\ IF BreakConditionMet(breakConditionResult) \/ MaxReached(Seg, simI)
                  THEN /\ promises' = Append(promises, [state |-> "fulfilled",
                                                        value |-> breakConditionResult])
                       /\ settleOrder' = Append(settleOrder, Len(promises) + 1)
                       /\ segmentResult' = segmentResult \o out
                       /\ emitted' = Emit(out)
                       /\ pc' = "return"
                       /\ UNCHANGED <<simI, err>>
                  ELSE /\ simI' = simI + 1
                       /\ pc' = "sim_loop"
                       /\ UNCHANGED <<segmentResult, emitted, promises, settleOrder, err>>
  /\ UNCHANGED <<fnVars, agent, agentResolved, segments, i, evaluatedSegmentPromises,
                 previousActualMessages, messages, report>>

SegmentReturn_Unshift ==
  /\ pc = "return"
  /\ evaluatedSegmentPromises' = segmentResult \o evaluatedSegmentPromises
  /\ i' = i + 1
  /\ pc' = "loop"
  /\ UNCHANGED <<fnVars, agent, agentResolved, segments, previousActualMessages, segmentResult, simI, messages,
                 promises, settleOrder, report, err, calls, emitted>>

\* eval-runner.ts:47-49 -- the segment's promise resolves; push and next index
SegmentReturn ==
  /\ pc = "return"
  /\ evaluatedSegmentPromises' = evaluatedSegmentPromises \o segmentResult
  /\ i' = i + 1
  /\ pc' = "loop"
  /\ UNCHANGED <<fnVars, agent, agentResolved, segments, previousActualMessages, segmentResult, simI, messages,
                 promises, settleOrder, report, err, calls, emitted>>

\* eval-runner.ts:40, eval-runner.ts:52 -- the loop is over, Promise.all is called
PromiseAll ==
  /\ pc = "loop"
  /\ ~(i < Len(segments))
  /\ pc' = "resolve"
  /\ UNCHANGED <<fnVars, agent, agentResolved, segments, i, evaluatedSegmentPromises, previousActualMessages,
                 segmentResult, simI, messages, promises, settleOrder, report, err,
                 calls, emitted>>

\* segment.ts:49-51 -- the promise returned by criterion.evaluate settles, at any
\* time while the process is alive (also after evaluate() has rejected), with a
\* result or with a rejection
Settle(p) ==
  /\ pc # "exited"
  /\ promises[p].state = "pending"
  /\ \E outcome \in Statuses \cup {"reject"} :
       promises' = [promises EXCEPT ![p] =
                      IF outcome = "reject"
                      THEN [state |-> "rejected"]
                      ELSE [state |-> "fulfilled", value |-> CriterionResult(outcome)]]
  /\ settleOrder' = Append(settleOrder, p)
  /\ UNCHANGED <<fnVars, agent, agentResolved, segments, pc, i, evaluatedSegmentPromises, previousActualMessages,
                 segmentResult, simI, messages, report, err, calls, emitted>>

\* segment.ts:34, segment.ts:86, segment.ts:102, segment.ts:109 -- the run waits for
\* the answer of a collaborator
AwaitingCollaborator ==
  pc \in {"agent_wait", "sim_user_wait", "sim_agent_wait", "sim_until_wait"}

\* eval-runner.ts:52 -- Promise.all has been called: every carried promise has a
\* handler.  A run that a segment's error ended never gets there
HandlersAttached == pc \in {"resolve", "done"} \/ err = "criterion"

\* segment.ts:49-53, eval-runner.ts:40-52 -- a carried promise gets its first
\* handler from Promise.all, after the loop.  If it is rejected while the run
\* waits for a collaborator, or after a segment's error has rejected evaluate(),
\* the host may end the process on the unhandled rejection (Node's default) or
\* leave it alone
UnhandledRejection ==
  /\ AwaitingCollaborator \/ pc = "aborted"
  /\ ~HandlersAttached
  /\ \E p \in 1..Len(promises) : promises[p].state = "rejected"
  /\ pc' = "exited"
  /\ UNCHANGED <<fnVars, agent, agentResolved, segments, i, evaluatedSegmentPromises,
                 previousActualMessages, segmentResult, simI, messages, promises,
                 settleOrder, report, err, calls, emitted>>

\* the entry of evaluatedSegmentPromises that carries promise p
EntryOfPromise(p) ==
  evaluatedSegmentPromises[CHOOSE k \in 1..Len(evaluatedSegmentPromises) :
    /\ evaluatedSegmentPromises[k].type = "eval"
    /\ evaluatedSegmentPromises[k].evalResult = p]

Results_InSettleOrder ==
  LET evalsBefore(k) ==
        Cardinality({ n \in 1..k : evaluatedSegmentPromises[n].type = "eval" })
  IN [k \in 1..Len(evaluatedSegmentPromises) |->
        LET res == evaluatedSegmentPromises[k]
        IN IF res.type = "eval"
           THEN LET p == settleOrder[evalsBefore(k)]
                IN [type |-> "eval", evalResult |-> promises[p].value,
                    criterion |-> EntryOfPromise(p).criterion]
           ELSE res]

\* eval-runner.ts:52-64 -- the resolved list, in the order of evaluatedSegmentPromises
Results ==
  [k \in 1..Len(evaluatedSegmentPromises) |->
     LET res == evaluatedSegmentPromises[k]
     IN IF res.type = "eval"
        THEN [type |-> "eval", evalResult |-> promises[res.evalResult].value,
              criterion |-> res.criterion]
        ELSE res]

\* ./utils groupBy -- one bucket per key, each keeping the order of the input
groupBy(array, keyFn) ==
  [key \in {"success", "failure", "unknown"} |->
     SelectSeq(array, LAMBDA item : keyFn[item] = key)]

HasStatus_SuccessOnly(r) == r.type = "eval" /\ r.evalResult.status = "success"

\* eval-runner.ts:73 -- the entries handed to groupBy
HasStatus(r) == r.type = "eval" /\ r.evalResult.status # "undefined"

\* eval-runner.ts:74 -- the grouping key
StatusKey(r) == IF r.evalResult.status = "undefined" THEN "unknown" ELSE r.evalResult.status

\* eval-runner.ts:72-75
ResultsByStatus(results) ==
  LET kept == SelectSeq(results, HasStatus)
  IN groupBy(kept, [r \in { kept[k] : k \in 1..Len(kept) } |-> StatusKey(r)])

Success_SomeSucceeded(resultsByStatus) == Len(resultsByStatus.success) > 0

\* eval-runner.ts:86
Success(resultsByStatus) == Len(resultsByStatus.failure) = 0

\* eval-runner.ts:77-87 -- the data fields of the returned report
Report ==
  [results |-> Results,
   resultsByStatus |-> ResultsByStatus(Results),
   messages |-> MessagesOf(evaluatedSegmentPromises),
   success |-> Success(ResultsByStatus(Results))]

AwaitedPromises ==
  { evaluatedSegmentPromises[k].evalResult :
      k \in { n \in 1..Len(evaluatedSegmentPromises) :
                evaluatedSegmentPromises[n].type = "eval" } }

\* criterion.ts:27, criterion.ts:64 -- negate(c1) and pipe(c1, fn) are new objects
\* that copy c1's fields; "c0" is a criterion no segment uses
CriterionInstances == Criteria \cup {"negate(c1)", "pipe(c1)", "c0"}

\* criterion.ts:5, criterion.ts:27, criterion.ts:64 -- instances c1 and c2 were given
\* the same name, and the wrappers of c1 copy it
CriterionName(c) == IF c = "c0" THEN "Other" ELSE "Length check"

GetResults_ByName(rep, c) ==
  LET hits == SelectSeq(rep.results,
                LAMBDA r : r.type = "eval" /\ CriterionName(r.criterion) = CriterionName(c))
  IN [k \in 1..Len(hits) |-> hits[k].evalResult]

\* eval-runner.ts:91-95
GetResults(rep, c) ==
  LET hits == SelectSeq(rep.results, LAMBDA r : r.type = "eval" /\ r.criterion = c)
  IN [k \in 1..Len(hits) |-> hits[k].evalResult]

\* eval-runner.ts:66-70 -- results.find(...)?.evalResult; <<>> is undefined
GetResult(rep, c) ==
  LET found == { k \in 1..Len(rep.results) :
                   rep.results[k].type = "eval" /\ rep.results[k].criterion = c }
  IN IF found = {} THEN <<>>
     ELSE <<rep.results[CHOOSE k \in found : \A n \in found : k <= n].evalResult>>

\* eval-runner.ts:107-115
GetResultOrThrow(rep, c) ==
  LET res == GetResult(rep, c)
  IN IF res = <<>>
     THEN [threw |-> TRUE,
           error |-> <<"Cannot find results for criterion ", CriterionName(c)>>]
     ELSE [threw |-> FALSE, value |-> res[1]]

\* eval-runner.ts:52-87 -- every awaited promise is fulfilled: build and return the report
ReturnReport ==
  /\ pc = "resolve"
  /\ \A p \in AwaitedPromises : promises[p].state = "fulfilled"
  /\ report' = Report
  /\ pc' = "done"
  /\ UNCHANGED <<fnVars, agent, agentResolved, segments, i, evaluatedSegmentPromises, previousActualMessages,
                 segmentResult, simI, messages, promises, settleOrder, err, calls,
                 emitted>>

\* eval-runner.ts:52 -- Promise.all rejects as soon as one awaited promise is rejected
RejectRun ==
  /\ pc = "resolve"
  /\ \E p \in AwaitedPromises : promises[p].state = "rejected"
  /\ Throw("criterion")
  /\ UNCHANGED <<fnVars, agent, agentResolved, segments, i, evaluatedSegmentPromises, previousActualMessages,
                 segmentResult, simI, messages, promises, settleOrder, report, calls,
                 emitted>>

Next ==
  \/ ResolveAgent
  \/ StartSegment
  \/ MessageEvaluate
  \/ AgentResponseEvaluate
  \/ AgentResponseAnswer
  \/ AiEvalEvaluate
  \/ UserSimulationEvaluate
  \/ SimUserRespond
  \/ SimUserAnswer
  \/ SimLoopExit
  \/ SimAgentInvoke
  \/ SimAgentAnswer
  \/ SimUntilEvaluate
  \/ SimUntilAnswer
  \/ UnhandledRejection
  \/ SegmentReturn
  \/ PromiseAll
  \/ \E p \in 1..Len(promises) : Settle(p)
  \/ ReturnReport
  \/ RejectRun

Spec == Init /\ [][Next]_vars

\* the runs of the scenarios built around one userSimulation
SimulationSpec == InitSimulation /\ [][Next]_vars

----------------------------------------------------------------------------
\* Criterion combinators (criterion.ts), applied on their own

\* criterion.ts:14-22 -- full results of the wrapped criteria.  A string is the
\* sequence of its pieces (<<>> is ''); an optional field is <<>> when missing and
\* <<value>> when present; a missing status is "undefined".
FullResults ==
  [output : {1, 2},
   reason : {<<>>, <<<<>>>>, <<<<"ra">>>>, <<<<"rb">>>>},
   error : {<<>>, <<"E">>},
   status : Statuses]

\* message.ts:22 -- the message lists the combinators are evaluated on
CombinatorMessages ==
  { <<[role |-> "user", content |-> <<"lit", 1>>]>>,
    <<[role |-> "user", content |-> <<"lit", 1>>],
      [role |-> "assistant", content |-> <<"agent", 1>>]>> }

\* criterion.ts:9-11 -- params, and what c1 and c2 answer for them
CombinatorInputs == [messages : CombinatorMessages, r1 : FullResults, r2 : FullResults]

Negate_FlipsUndetermined(result) ==
  [result EXCEPT !.status = IF result.status = "success" THEN "failure" ELSE "success"]

\* criterion.ts:30-38 -- the result negate(c) builds from c's result
Negate(result) ==
  [result EXCEPT !.status =
     IF result.status = "success" THEN "failure"
     ELSE IF result.status = "failure" THEN "success"
     ELSE result.status]

\* criterion.ts:50 -- filter(Boolean): undefined and '' are dropped
Truthy(reason) == reason # <<>> /\ reason[1] # <<>>

\* criterion.ts:50 -- join(' AND ')
RECURSIVE Join(_)
Join(strings) ==
  IF strings = <<>> THEN <<>>
  ELSE IF Len(strings) = 1 THEN strings[1]
  ELSE strings[1] \o <<" AND ">> \o Join(Tail(strings))

And_KeepsUndetermined(result1, result2) ==
  [output |-> <<result1.output, result2.output>>,
   reason |-> <<Join([k \in 1..Len(SelectSeq(<<result1.reason, result2.reason>>, Truthy)) |->
                       SelectSeq(<<result1.reason, result2.reason>>, Truthy)[k][1]])>>,
   status |-> IF result1.status = "success" /\ result2.status = "success" THEN "success"
              ELSE IF "failure" \in {result1.status, result2.status} THEN "failure"
              ELSE "undefined"]

\* criterion.ts:50-57 -- the result and(c1, c2) builds from both results
And(result1, result2) ==
  LET kept == SelectSeq(<<result1.reason, result2.reason>>, Truthy)
      reason == Join([k \in 1..Len(kept) |-> kept[k][1]])
  IN [output |-> <<result1.output, result2.output>>,
      reason |-> <<reason>>,
      status |-> IF result1.status = "success" /\ result2.status = "success"
                 THEN "success" ELSE "failure"]

\* criterion.ts:28-39 -- negate(c1).evaluate(params)
NegateEvaluate ==
  /\ fn = "none"
  /\ arg \in CombinatorInputs
  /\ fn' = "negate"
  /\ ret' = [calls |-> <<[criterion |-> "c1", messages |-> arg.messages]>>,
             result |-> Negate(arg.r1)]
  /\ UNCHANGED <<arg, runVars>>

\* criterion.ts:28-39 -- negate(negate(c1)).evaluate(params)
NegateNegateEvaluate ==
  /\ fn = "none"
  /\ arg \in CombinatorInputs
  /\ fn' = "negate(negate)"
  /\ ret' = [calls |-> <<[criterion |-> "c1", messages |-> arg.messages]>>,
             result |-> Negate(Negate(arg.r1))]
  /\ UNCHANGED <<arg, runVars>>

\* criterion.ts:47-58 -- and(c1, c2).evaluate(params)
AndEvaluate ==
  /\ fn = "none"
  /\ arg \in CombinatorInputs
  /\ fn' = "and"
  /\ ret' = [calls |-> <<[criterion |-> "c1", messages |-> arg.messages],
                         [criterion |-> "c2", messages |-> arg.messages]>>,
             result |-> And(arg.r1, arg.r2)]
  /\ UNCHANGED <<arg, runVars>>

\* no run of evaluate() is going on: only a criterion is applied
NoRun == segments = <<>> /\ agent = "agent" /\ Start

InitCombinator == NoRun /\ arg \in CombinatorInputs

NextCombinator == NegateEvaluate \/ NegateNegateEvaluate \/ AndEvaluate

\* the applications of negate and and to every pair of results
CombinatorSpec == InitCombinator /\ [][NextCombinator]_vars

----------------------------------------------------------------------------
\* The tools-called criteria (criteria/tools-called.ts), applied on their own

\* the sequences over S of length at most n
RECURSIVE SeqsUpTo(_, _)
SeqsUpTo(S, n) ==
  IF n = 0 THEN {<<>>}
  ELSE LET shorter == SeqsUpTo(S, n - 1)
       IN shorter \cup { Append(q, x) : q \in shorter, x \in S }

\* message.ts:1-6 -- tool calls of an assistant message (`args` plays no part in
\* the criteria and is left out); call "A" carries an id, call "B" does not
ToolCalls == { [id |-> <<"1">>, name |-> "A"], [id |-> <<>>, name |-> "B"] }

\* message.ts:18 -- the `content` record of a tool-result message: one that names
\* call "A" by id and name, one that has neither field
ToolResults == { [id |-> <<"1">>, name |-> <<"A">>], [id |-> <<>>, name |-> <<>>] }

\* message.ts:32 -- a tool call recorded in the generation context, with its result
ContextToolCall == [id |-> <<>>, name |-> "B", result |-> <<[id |-> <<>>, name |-> <<"ctx">>]>>]

\* message.ts:7-12
AIMessages ==
  { [role |-> "assistant", content |-> <<"agent", 1>>, tool_calls |-> tcs, context |-> <<>>] :
      tcs \in SeqsUpTo(ToolCalls, MaxToolCalls) }
  \cup { [role |-> "assistant", content |-> <<"agent", 1>>, tool_calls |-> <<>>,
          context |-> <<[tool_calls |-> <<ContextToolCall>>]>>] }

\* message.ts:14-19
ToolResultMessages == { [role |-> "tool", name |-> "A", content |-> c] : c \in ToolResults }

\* message.ts:22 -- the messages the tools-called criteria are evaluated on
ToolsMessages == AIMessages \cup ToolResultMessages \cup {[role |-> "user", content |-> <<"lit", 1>>]}

\* tools-called.ts:61
Matches(result, call) == result.id = call.id \/ result.name = <<call.name>>

\* tools-called.ts:60-62 -- findIndex visits every index, a deleted slot as
\* undefined: reading `.id` of it throws a TypeError.  index is 0-based, -1 if
\* no slot matches
FindIndex(followingToolResults, call) ==
  LET stops == { k \in 1..Len(followingToolResults) :
                   \/ followingToolResults[k] = <<>>
                   \/ Matches(followingToolResults[k][1], call) }
      first == CHOOSE k \in stops : \A m \in stops : k <= m
  IN IF stops = {} THEN [threw |-> FALSE, index |-> -1]
     ELSE IF followingToolResults[first] = <<>> THEN [threw |-> TRUE, index |-> -1]
     ELSE [threw |-> FALSE, index |-> first - 1]

\* tools-called.ts:59-70 -- calls.forEach: set each call's result and delete the
\* slot it was found in
RECURSIVE SetResults(_, _)
SetResults(cs, followingToolResults) ==
  IF cs = <<>> THEN [threw |-> FALSE, calls |-> <<>>]
  ELSE LET call == Head(cs)
           found == FindIndex(followingToolResults, call)
           callResult == found.index
       IN IF found.threw THEN [threw |-> TRUE, calls |-> <<>>]
          ELSE IF callResult = -1 /\ call.result = <<>>
          THEN LET rest == SetResults(Tail(cs), followingToolResults)
               IN [threw |-> rest.threw,
                   calls |-> IF rest.threw THEN <<>> ELSE <<call>> \o rest.calls]
          ELSE LET tool == IF call.result # <<>> THEN call.result
                           ELSE followingToolResults[callResult + 1]
                   deleted == IF callResult = -1 THEN followingToolResults
                              ELSE [followingToolResults EXCEPT ![callResult + 1] = <<>>]
                   rest == SetResults(Tail(cs), deleted)
               IN [threw |-> rest.threw,
                   calls |-> IF rest.threw THEN <<>>
                             ELSE <<[call EXCEPT !.result = tool]>> \o rest.calls]

\* tools-called.ts:31-72 -- the calls of the message at `index` (1-based), none
\* if it is not an assistant message
CallsOfMessage(ms, index) ==
  LET message == ms[index]
  IN IF message.role # "assistant" THEN [threw |-> FALSE, calls |-> <<>>]
     ELSE LET own == [k \in 1..Len(message.tool_calls) |->
                        [id |-> message.tool_calls[k].id,
                         name |-> message.tool_calls[k].name,
                         result |-> <<>>]]
              ctx == IF message.context = <<>> THEN <<>> ELSE message.context[1].tool_calls
              later == SelectSeq(SubSeq(ms, index + 1, Len(ms)), LAMBDA m : m.role = "tool")
              followingToolResults == [k \in 1..Len(later) |-> <<later[k].content>>]
          IN SetResults(own \o ctx, followingToolResults)

\* tools-called.ts:29-74 -- flatMap over the messages from `index` on
RECURSIVE ExtractFrom(_, _)
ExtractFrom(ms, index) ==
  IF index > Len(ms) THEN [threw |-> FALSE, calls |-> <<>>]
  ELSE LET here == CallsOfMessage(ms, index)
       IN IF here.threw THEN here
          ELSE LET rest == ExtractFrom(ms, index + 1)
               IN [threw |-> rest.threw,
                   calls |-> IF rest.threw THEN <<>> ELSE here.calls \o rest.calls]

\* tools-called.ts:29-74
extractToolCallsFromMessages(ms) == ExtractFrom(ms, 1)

\* tools-called.ts:126-127 -- toReversed
Reversed(q) == [k \in 1..Len(q) |-> q[Len(q) + 1 - k]]

\* tools-called.ts:12-15 -- what an assertion function does when it is called:
\* it returns true, false or nothing, or it throws
AssertionFns == {"true", "false", "void", "throw"}

\* the value an assertion function throws
Thrown(name) == <<"thrown by", name>>

CaughtAssertion_IgnoresThrow(name, assertion) ==
  IF assertion = "false"
  THEN <<[output |-> [toolCallOrderSatisfied |-> TRUE], status |-> "failure",
          reason |-> <<<<"Tool '", name, "' assertion failed">>>>, error |-> <<>>]>>
  ELSE <<>>

\* tools-called.ts:163-182 -- the result the assertion leads to, none if the loop
\* goes on
CaughtAssertion(name, assertion) ==
  IF assertion = "false"
  THEN <<[output |-> [toolCallOrderSatisfied |-> TRUE], status |-> "failure",
          reason |-> <<<<"Tool '", name, "' assertion failed">>>>, error |-> <<>>]>>
  ELSE IF assertion = "throw"
  THEN <<[output |-> [toolCallOrderSatisfied |-> TRUE], status |-> "failure",
          reason |-> <<<<"Tool '", name, "' assertion failed">>>>,
          error |-> <<Thrown(name)>>]>>
  ELSE <<>>

\* tools-called.ts:129-188 -- the loop from iteration `at` (i in the code) on, with the calls of
\* assertion functions it makes
RECURSIVE CheckFrom(_, _, _, _)
CheckFrom(at, reversedActualToolCalls, reversedToolCallAssertions, assertOrder) ==
  IF ~(at < Len(reversedToolCallAssertions))
  THEN [calls |-> <<>>,
        result |-> [output |-> [toolCallOrderSatisfied |-> TRUE], status |-> "success",
                    reason |-> <<>>, error |-> <<>>]]
  ELSE
    LET toolCallAssertion == reversedToolCallAssertions[at + 1]
        named == { k \in 1..Len(reversedActualToolCalls) :
                     reversedActualToolCalls[k].name = toolCallAssertion.name }
    IN IF assertOrder /\ ~(at < Len(reversedActualToolCalls))
       THEN [calls |-> <<>>,
             result |-> [output |-> [toolCallOrderSatisfied |-> FALSE], status |-> "failure",
                         reason |-> <<<<"Tool '", toolCallAssertion.name, "' was not called">>>>,
                         error |-> <<>>]]
       ELSE IF assertOrder /\ reversedActualToolCalls[at + 1].name # toolCallAssertion.name
       THEN [calls |-> <<>>,
             result |-> [output |-> [toolCallOrderSatisfied |-> FALSE], status |-> "failure",
                         reason |-> <<<<"Tool '", reversedActualToolCalls[at + 1].name,
                                       "' was called out of order - expected '",
                                       toolCallAssertion.name, "'">>>>,
                         error |-> <<>>]]
       ELSE IF named = {}
       THEN [calls |-> <<>>,
             result |-> [output |-> [toolCallOrderSatisfied |-> TRUE], status |-> "failure",
                         reason |-> <<<<"Tool '", toolCallAssertion.name, "' was not called">>>>,
                         error |-> <<>>]]
       ELSE
         LET actualToolCall ==
               reversedActualToolCalls[CHOOSE k \in named : \A m \in named : k <= m]
         IN IF toolCallAssertion.assertion = <<>>
            THEN CheckFrom(at + 1, reversedActualToolCalls, reversedToolCallAssertions, assertOrder)
            ELSE
              LET call == [name |-> toolCallAssertion.name,
                           assertion |-> toolCallAssertion.assertion[1],
                           toolCall |-> actualToolCall]
                  caught == CaughtAssertion(toolCallAssertion.name, toolCallAssertion.assertion[1])
                  rest == CheckFrom(at + 1, reversedActualToolCalls,
                                    reversedToolCallAssertions, assertOrder)
              IN IF caught # <<>>
                 THEN [calls |-> <<call>>, result |-> caught[1]]
                 ELSE [calls |-> <<call>> \o rest.calls, result |-> rest.result]

\* tools-called.ts:112-189 -- aiToolsCalled(options).evaluate(params): the result
\* it resolves with, or the error it rejects with
AiToolsCalled(options, ms) ==
  IF Len(options.toolCalls) = 0
  THEN [threw |-> <<>>, calls |-> <<>>,
        result |-> <<[output |-> [toolCallOrderSatisfied |-> TRUE], status |-> "success",
                      reason |-> <<<<"No tool calls to check">>>>, error |-> <<>>]>>]
  ELSE LET actualToolCalls == extractToolCallsFromMessages(ms)
       IN IF actualToolCalls.threw
          THEN [threw |-> <<"TypeError">>, calls |-> <<>>, result |-> <<>>]
          ELSE LET checked == CheckFrom(0, Reversed(actualToolCalls.calls),
                                        Reversed(options.toolCalls), options.assertOrder)
               IN [threw |-> <<>>, calls |-> checked.calls, result |-> <<checked.result>>]

\* tools-called.ts:82-100 -- aiToolCalls(options).evaluate(params)
AiToolCalls(options, ms) ==
  LET toolCalls == extractToolCallsFromMessages(ms)
  IN IF toolCalls.threw
     THEN [threw |-> <<"TypeError">>, calls |-> <<>>, result |-> <<>>]
     ELSE LET call == [name |-> "assertion", assertion |-> options.assertion,
                       toolCalls |-> toolCalls.calls]
          IN IF options.assertion = "throw"
             THEN [threw |-> <<>>, calls |-> <<call>>,
                   result |-> <<[output |-> <<>>, status |-> "failure",
                                 reason |-> <<<<"Tool call assertion failed">>>>,
                                 error |-> <<Thrown("assertion")>>]>>]
             ELSE [threw |-> <<>>, calls |-> <<call>>,
                   result |-> <<[output |-> <<options.assertion>>, status |-> "success",
                                 reason |-> <<>>, error |-> <<>>]>>]

\* tools-called.ts:17-23 -- tool call assertions without an assertion function
NameAssertions == { [name |-> n, assertion |-> <<>>] : n \in {"A", "B"} }

\* tools-called.ts:17-23 -- tool call assertions with and without a function
ToolCallAssertions ==
  NameAssertions \cup { [name |-> n, assertion |-> <<f>>] : n \in {"A", "B"}, f \in AssertionFns }

\* tools-called.ts:76-78, tools-called.ts:104-109 -- a criterion with its options
\* and the messages it is evaluated on
ToolsInputsOver(ms, assertions) ==
  [criterion : {"aiToolsCalled"}, messages : ms, assertOrder : BOOLEAN,
   toolCalls : SeqsUpTo(assertions, MaxToolCalls)]
  \cup [criterion : {"aiToolCalls"}, messages : ms, assertion : AssertionFns]

\* every message list, name-only assertions
ToolsInputs == ToolsInputsOver(SeqsUpTo(ToolsMessages, MaxMessages), NameAssertions)

\* message lists with at most one tool result, every kind of assertion
AssertionInputs ==
  ToolsInputsOver(
    { <<>>,
      <<[role |-> "assistant", content |-> <<"agent", 1>>,
         tool_calls |-> <<[id |-> <<"1">>, name |-> "A"]>>, context |-> <<>>]>>,
      <<[role |-> "assistant", content |-> <<"agent", 1>>,
         tool_calls |-> <<[id |-> <<"1">>, name |-> "A"], [id |-> <<>>, name |-> "B"]>>,
         context |-> <<>>],
        [role |-> "tool", name |-> "A", content |-> [id |-> <<"1">>, name |-> <<"A">>]]>> },
    ToolCallAssertions)

\* tools-called.ts:112 -- aiToolsCalled(options).evaluate({messages})
AiToolsCalledEvaluate ==
  /\ fn = "none"
  /\ arg \in ToolsInputs \cup AssertionInputs
  /\ arg.criterion = "aiToolsCalled"
  /\ fn' = "aiToolsCalled"
  /\ ret' = AiToolsCalled([assertOrder |-> arg.assertOrder, toolCalls |-> arg.toolCalls],
                          arg.messages)
  /\ UNCHANGED <<arg, runVars>>

\* tools-called.ts:82 -- aiToolCalls(options).evaluate({messages})
AiToolCallsEvaluate ==
  /\ fn = "none"
  /\ arg \in ToolsInputs \cup AssertionInputs
  /\ arg.criterion = "aiToolCalls"
  /\ fn' = "aiToolCalls"
  /\ ret' = AiToolCalls([assertion |-> arg.assertion], arg.messages)
  /\ UNCHANGED <<arg, runVars>>

InitTools == NoRun /\ arg \in ToolsInputs

InitAssertions == NoRun /\ arg \in AssertionInputs

NextTools == AiToolsCalledEvaluate \/ AiToolCallsEvaluate

\* the tools-called criteria on every bounded message list
ToolsSpec == InitTools /\ [][NextTools]_vars

\* the tools-called criteria with assertion functions
AssertionSpec == InitAssertions /\ [][NextTools]_vars

----------------------------------------------------------------------------
\* Helpers of the properties

\* entries emitted by segment j, in emission order
EmittedBy(j) ==
  LET es == SelectSeq(emitted, LAMBDA e : e.seg = j)
  IN [k \in 1..Len(es) |-> es[k].entry]

\* calls segment j made to `who`, in call order
CallsBy(j, who) == SelectSeq(calls, LAMBDA c : c.seg = j /\ c.who = who)

IsSim(j) == j + 1 \in DOMAIN segments /\ segments[j + 1].type = "userSimulation"

\* the number of turns the caller asked for: `max`, or 10 when `max` is not given
AskedTurns(j) == IF segments[j + 1].max = <<>> THEN 10 ELSE segments[j + 1].max[1]

\* a userSimulation segment has built its return value and is about to hand it over
SimReturning == pc = "return" /\ IsSim(i)

\* no `until` evaluation of segment j returned 'success'
NeverSucceeded(j) ==
  \A k \in 1..Len(CallsBy(j, "until")) : ~CallsBy(j, "until")[k].success

IsMessageOf(e, role) == e.type = "message" /\ e.message.role = role

\* out is n user/agent turn pairs, user first, followed by one eval entry for criterion c
TurnsThenEval(out, n, c) ==
  /\ Len(out) = 2 * n + 1
  /\ \A k \in 1..n : IsMessageOf(out[2 * k - 1], "user") /\ IsMessageOf(out[2 * k], "assistant")
  /\ out[2 * n + 1].type = "eval"
  /\ out[2 * n + 1].criterion = c
  /\ promises[out[2 * n + 1].evalResult].state = "fulfilled"

EvalStatus(e) == promises[e.evalResult].value.status

\* C1 as stated: for every N given as `max` (10 when absent) and an `until` that
\* never returns 'success', userSimulation returns 2N messages, user and agent
\* alternating, then exactly one eval entry for `until` with a non-success status.
C1_AsStated ==
  (SimReturning /\ NeverSucceeded(i)) =>
     /\ TurnsThenEval(segmentResult, AskedTurns(i), Seg.until)
     /\ EvalStatus(segmentResult[Len(segmentResult)]) # "success"

\* C1 amended: the same for every N >= 1; with N = 0 the loop body never runs and
\* the segment returns no entry at all.
C1_ExhaustedSimulationShape ==
  (SimReturning /\ NeverSucceeded(i)) =>
     IF AskedTurns(i) >= 1
     THEN /\ TurnsThenEval(segmentResult, AskedTurns(i), Seg.until)
          /\ EvalStatus(segmentResult[Len(segmentResult)]) # "success"
     ELSE segmentResult = <<>>

\* a simulation without `max` returns after its tenth iteration
C1_Witness ==
  /\ SimReturning /\ NeverSucceeded(i)
  /\ Seg.max = <<>>
  /\ Len(segmentResult) = 21
  /\ Len(CallsBy(i, "until")) = 10

\* the index of the first `until` evaluation of segment j that returned 'success'
FirstSuccess(j) ==
  CHOOSE k \in 1..Len(CallsBy(j, "until")) :
    /\ CallsBy(j, "until")[k].success
    /\ \A n \in 1..(k - 1) : ~CallsBy(j, "until")[n].success

\* C2: once `until` returns 'success' for the first time, on iteration k <= max,
\* the segment's output is 2k messages then one eval entry with status 'success',
\* and the segment makes no further call to the user, the agent or `until`.
C2_BreakOnFirstSuccess ==
  \A j \in 0..(Len(segments) - 1) :
    (IsSim(j) /\ ~NeverSucceeded(j)) =>
       LET k == FirstSuccess(j)
       IN /\ k <= AskedTurns(j)
          /\ Len(CallsBy(j, "until")) = k
          /\ Len(CallsBy(j, "user")) = k
          /\ Len(CallsBy(j, "agent")) = k
          /\ TurnsThenEval(EmittedBy(j), k, segments[j + 1].until)
          /\ EvalStatus(EmittedBy(j)[2 * k + 1]) = "success"

\* `until` succeeded on the second of ten iterations and the run went on to its end
C2_Witness ==
  /\ pc = "done"
  /\ \E j \in 0..(Len(segments) - 1) :
       /\ IsSim(j) /\ ~NeverSucceeded(j)
       /\ FirstSuccess(j) = 2
       /\ AskedTurns(j) = 10
       /\ j + 1 < Len(segments)

\* message entries emitted by the segments before segment j, in emission order
MessagesBefore(j) ==
  LET es == SelectSeq(emitted, LAMBDA e : e.seg < j /\ e.entry.type = "message")
  IN [k \in 1..Len(es) |-> es[k].entry.message]

SegmentRunning ==
  pc \in {"evaluate", "agent_wait", "sim_loop", "sim_user_wait", "sim_agent",
          "sim_agent_wait", "sim_until", "sim_until_wait", "return"}

\* C3: segments run one after the other (nothing of segment i+1 happens before
\* segment i has returned), and the previousActualMessages a segment receives is
\* exactly the message entries emitted by all earlier segments, in emission order,
\* eval entries left out.
C3_SequentialSegments ==
  /\ SegmentRunning => previousActualMessages = MessagesBefore(i)
  /\ \A k \in 1..Len(emitted) :
       /\ emitted[k].seg <= i
       /\ pc \in {"loop", "resolve", "done"} => emitted[k].seg < i
       /\ k > 1 => emitted[k - 1].seg <= emitted[k].seg
  /\ \A k \in 1..Len(calls) :
       /\ calls[k].seg <= i
       /\ pc \in {"loop", "resolve", "done"} => calls[k].seg < i
       /\ k > 1 => calls[k - 1].seg <= calls[k].seg

\* the third segment runs on a transcript made by two earlier segments, one of
\* which also emitted an eval entry
C3_Witness ==
  /\ SegmentRunning
  /\ i = 2
  /\ Len(previousActualMessages) >= 3
  /\ \E k \in 1..Len(emitted) : emitted[k].entry.type = "eval"

\* C4: the report is built only after every segment has run and every deferred
\* evaluation has resolved; report.results has one entry per emitted entry, in
\* emission order, whatever the order in which the evaluations resolved.
C4_ResultsInEmissionOrder ==
  pc = "done" =>
    /\ i = Len(segments)
    /\ \A p \in 1..Len(promises) : promises[p].state = "fulfilled"
    /\ Len(report.results) = Len(emitted)
    /\ \A k \in 1..Len(emitted) :
         LET e == emitted[k].entry
             r == report.results[k]
         IN /\ r.type = e.type
            /\ e.type = "message" => r.message = e.message
            /\ e.type = "eval" => /\ r.criterion = e.criterion
                                  /\ r.evalResult = promises[e.evalResult].value

\* two evaluations deferred by aiEval segments resolved in the reverse of their
\* emission order, with different results
C4_Witness ==
  /\ pc = "done"
  /\ \E a, b \in 1..Len(emitted) :
       /\ a < b
       /\ emitted[a].entry.type = "eval" /\ emitted[b].entry.type = "eval"
       /\ segments[emitted[a].seg + 1].type = "aiEval"
       /\ segments[emitted[b].seg + 1].type = "aiEval"
       /\ promises[emitted[a].entry.evalResult].value
            # promises[emitted[b].entry.evalResult].value
       /\ \E x, y \in 1..Len(settleOrder) :
            /\ x < y
            /\ settleOrder[x] = emitted[b].entry.evalResult
            /\ settleOrder[y] = emitted[a].entry.evalResult

NoMessageEmitted == \A k \in 1..Len(emitted) : emitted[k].entry.type # "message"

\* once evaluate() has rejected, nothing more happens in the run: no segment
\* starts, no collaborator is called, no entry is recorded, no report is returned
AbortIsFinal ==
  pc \in {"aborted", "exited"} =>
    /\ pc' \in {"aborted", "exited"}
    /\ report = <<>> /\ report' = <<>>
    /\ UNCHANGED <<i, calls, emitted, evaluatedSegmentPromises, err>>

\* C5: an aiEval segment that runs on an empty transcript throws before it returns
\* an entry and without calling the criterion; the error aborts the run: no later
\* segment runs, no report is returned, no 'failure' result is recorded for it.
C5_AiEvalOnEmptyTranscriptAborts ==
  /\ [][(pc = "evaluate" /\ Seg.type = "aiEval" /\ NoMessageEmitted) =>
          /\ pc' = "aborted"
          /\ err' = "precondition"
          /\ UNCHANGED <<calls, emitted, promises, evaluatedSegmentPromises, report>>]_vars
  /\ [][AbortIsFinal]_vars

\* an aiEval that is not the first segment threw on an empty transcript, and
\* segments after it were left unrun
C5_Witness ==
  /\ pc = "aborted"
  /\ err = "precondition"
  /\ i = 1
  /\ i + 1 < Len(segments)
  /\ calls = <<>>

\* C6: a rejection of agent.invoke (agentResponse or userSimulation) or of the
\* synthetic user's respond rejects evaluate(): no entry is recorded for the
\* failed call, no later segment runs and no report is returned.
C6_CollaboratorRejectionAborts ==
  /\ [][(err = "none" /\ err' \in {"agent", "user"}) =>
          /\ pc' = "aborted"
          /\ calls' = calls
          /\ calls[Len(calls)].who = err'
          /\ UNCHANGED <<emitted, promises, evaluatedSegmentPromises, report>>]_vars
  /\ [][(pc' = "aborted" /\ pc # "aborted") => err' # "none"]_vars
  /\ [][(pc \in {"aborted", "exited"}) =>
          (/\ pc' \in {"aborted", "exited"}
           /\ UNCHANGED <<i, calls, emitted, evaluatedSegmentPromises, err>>
           /\ report' = <<>>)]_vars

\* the agent rejected inside a userSimulation that was not the first segment,
\* after the synthetic user's turn, with a segment left to run
C6_Witness ==
  /\ pc = "aborted"
  /\ err = "agent"
  /\ IsSim(i)
  /\ Len(CallsBy(i, "user")) = 1
  /\ i = 1
  /\ i + 1 < Len(segments)

\* the eval entries of the report, in order
EvalEntries(rep) == SelectSeq(rep.results, LAMBDA r : r.type = "eval")

NoFailedEval(rep) ==
  \A k \in 1..Len(rep.results) :
    rep.results[k].type = "eval" => rep.results[k].evalResult.status # "failure"

\* C7: report.success is true exactly when no resolved eval entry has status
\* 'failure'; a run without eval entries, or with successful ones only, returns a
\* report whose success is true.
C7_SuccessIffNoFailure ==
  pc = "done" => (report.success <=> NoFailedEval(report))

\* a run that emitted messages and no eval entry at all returned a successful report
C7_Witness ==
  /\ pc = "done"
  /\ Len(report.results) >= 2
  /\ EvalEntries(report) = <<>>
  /\ report.success

\* the bucket an eval entry belongs to
BucketOf(r) ==
  IF r.evalResult.status = "success" THEN "success"
  ELSE IF r.evalResult.status = "failure" THEN "failure"
  ELSE "unknown"

\* C8: every resolved eval entry is in exactly one bucket of resultsByStatus:
\* 'success' or 'failure' by its status, 'unknown' when the status is missing.
C8_EveryEvalInOneBucket ==
  pc = "done" =>
    \A b \in {"success", "failure", "unknown"} :
      report.resultsByStatus[b]
        = SelectSeq(EvalEntries(report), LAMBDA r : BucketOf(r) = b)

\* segment j ran all its iterations, `until` returned each time and never 'success'
Exhausted(j) ==
  /\ IsSim(j)
  /\ NeverSucceeded(j)
  /\ Len(CallsBy(j, "until")) = AskedTurns(j)
  /\ ~(pc \in {"sim_until_wait", "aborted", "exited"} /\ i = j)

\* C9 as stated: a userSimulation that exhausts `max` without success does not
\* abort the run, and the report is marked failed (success = false), for a final
\* `until` result that is failing as well as for an undetermined one.
C9_AsStated ==
  \A j \in 0..(Len(segments) - 1) :
    (pc = "done" /\ Exhausted(j) /\ AskedTurns(j) >= 1) => ~report.success

\* C9 amended: after exhausting max >= 1 iterations the segment returns its turns
\* and the last `until` result; the report is failed when that result has status
\* 'failure'; an undetermined result does not fail the report: success is then
\* true unless some eval entry has status 'failure'.
C9_ExhaustionFailsOnlyOnFailure ==
  \A j \in 0..(Len(segments) - 1) :
    (Exhausted(j) /\ AskedTurns(j) >= 1) =>
       /\ TurnsThenEval(EmittedBy(j), AskedTurns(j), segments[j + 1].until)
       /\ pc = "done" =>
            LET last == EvalStatus(EmittedBy(j)[2 * AskedTurns(j) + 1])
            IN /\ last = "failure" => ~report.success
               /\ last = "undefined" => (report.success <=> NoFailedEval(report))

\* an exhausted simulation ended on a failing `until` and the run returned a
\* failed report
C9_Witness ==
  /\ pc = "done"
  /\ ~report.success
  /\ \E j \in 0..(Len(segments) - 1) :
       /\ Exhausted(j)
       /\ AskedTurns(j) = 10
       /\ EvalStatus(EmittedBy(j)[21]) = "failure"
       /\ Len(EvalEntries(report)) = 1

OnlyMessageSegments == \A k \in DOMAIN segments : segments[k].type = "message"

\* C10: for a scenario made of message(...) segments only, report.messages is the
\* literal messages in segment order, the agent is never invoked, and the success
\* and failure buckets of resultsByStatus are empty.
C10_MessageOnlyScenario ==
  OnlyMessageSegments =>
    /\ CallsOf("agent") = <<>>
    /\ pc # "aborted"
    /\ pc = "done" =>
         /\ report.messages = [k \in DOMAIN segments |-> segments[k].message]
         /\ report.resultsByStatus.success = <<>>
         /\ report.resultsByStatus.failure = <<>>

\* a scenario of three literal messages, not all the same, has been reported
C10_Witness ==
  /\ pc = "done"
  /\ OnlyMessageSegments
  /\ Len(segments) = 3
  /\ segments[1] # segments[2]
  /\ Len(report.messages) = 3

\* the resolved results of the eval entries emitted for criterion instance c
ResultsEmittedFor(c) ==
  LET es == SelectSeq(emitted, LAMBDA e : e.entry.type = "eval" /\ e.entry.criterion = c)
  IN [k \in 1..Len(es) |-> promises[es[k].entry.evalResult].value]

\* C11: getResults(c) is the results, in emission order, of exactly the eval
\* entries whose criterion is the object c (same-named instances and wrappers of c
\* do not match); getResult(c) is its first element or undefined; getResultOrThrow(c)
\* returns that element and raises an error naming c exactly when there is none.
C11_LookupByReference ==
  pc = "done" =>
    \A c \in CriterionInstances :
      LET expected == ResultsEmittedFor(c)
          thrown == GetResultOrThrow(report, c)
      IN /\ GetResults(report, c) = expected
         /\ GetResult(report, c) = IF expected = <<>> THEN <<>> ELSE <<expected[1]>>
         /\ thrown.threw <=> expected = <<>>
         /\ thrown.threw => thrown.error[2] = CriterionName(c)
         /\ ~thrown.threw => thrown.value = expected[1]

\* c1 was evaluated twice with different results, c2 (same name) once, and the
\* negate wrapper of c1 never
C11_Witness ==
  /\ pc = "done"
  /\ Len(GetResults(report, "c1")) = 2
  /\ GetResults(report, "c1")[1] # GetResults(report, "c1")[2]
  /\ Len(GetResults(report, "c2")) = 1
  /\ GetResults(report, "negate(c1)") = <<>>
  /\ GetResultOrThrow(report, "negate(c1)").threw

Flipped(status) ==
  CASE status = "success" -> "failure"
    [] status = "failure" -> "success"
    [] status = "undefined" -> "undefined"

\* C12: negate(c) answers 'failure' where c answers 'success', 'success' where c
\* answers 'failure', and leaves an undetermined status alone; every other field
\* is c's; so negate(negate(c)) has the status of c.
C12_NegateFlipsStatus ==
  /\ fn = "negate" =>
       /\ ret.result.status = Flipped(arg.r1.status)
       /\ ret.result.output = arg.r1.output
       /\ ret.result.reason = arg.r1.reason
       /\ ret.result.error = arg.r1.error
       /\ ret.calls = <<[criterion |-> "c1", messages |-> arg.messages]>>
  /\ fn = "negate(negate)" => ret.result.status = arg.r1.status

\* negate was applied to an undetermined result that carries a reason and an error
C12_Witness ==
  /\ fn = "negate"
  /\ arg.r1.status = "undefined"
  /\ arg.r1.reason = <<<<"ra">>>>
  /\ arg.r1.error = <<"E">>
  /\ ret.result = arg.r1

\* the reasons of c1 then c2 that are neither missing nor '', joined by ' AND '
JoinedReasons(r1, r2) ==
  IF Truthy(r1.reason) /\ Truthy(r2.reason)
  THEN r1.reason[1] \o <<" AND ">> \o r2.reason[1]
  ELSE IF Truthy(r1.reason) THEN r1.reason[1]
  ELSE IF Truthy(r2.reason) THEN r2.reason[1]
  ELSE <<>>

\* C13: and(c1, c2) evaluates c1 and c2 on the messages it was given, answers
\* 'success' exactly when both answer 'success' and 'failure' otherwise (also for
\* an undetermined side), with the non-empty reasons of c1 then c2 joined by ' AND '.
C13_AndOfBoth ==
  fn = "and" =>
    /\ ret.calls = <<[criterion |-> "c1", messages |-> arg.messages],
                     [criterion |-> "c2", messages |-> arg.messages]>>
    /\ ret.result.status \in {"success", "failure"}
    /\ ret.result.status = "success" <=>
         (arg.r1.status = "success" /\ arg.r2.status = "success")
    /\ ret.result.reason = <<JoinedReasons(arg.r1, arg.r2)>>

\* one side succeeded and the other was undetermined, and only one side had a
\* non-empty reason
C13_Witness ==
  /\ fn = "and"
  /\ arg.r1.status = "success"
  /\ arg.r2.status = "undefined"
  /\ arg.r1.reason = <<<<>>>>
  /\ arg.r2.reason = <<<<"rb">>>>
  /\ ret.result.status = "failure"
  /\ ret.result.reason = <<<<"rb">>>>

\* C14: aiEval does not wait for its criterion: it calls criterion.evaluate on the
\* transcript as it stands at that segment and returns one eval entry whose result
\* is still pending, so later segments run meanwhile; what the criterion was given
\* never contains a message of a later segment.
C14_AiEvalIsDeferred ==
  /\ [][(pc = "evaluate" /\ Seg.type = "aiEval" /\ ~NoMessageEmitted /\ pc' # pc) =>
          /\ pc' = "return"
          /\ Len(promises') = Len(promises) + 1
          /\ promises'[Len(promises')].state = "pending"
          /\ segmentResult' = <<[type |-> "eval", evalResult |-> Len(promises'),
                                 criterion |-> Seg.criterion]>>
          /\ calls' = Append(calls, [seg |-> i, who |-> "criterion",
                                     criterion |-> Seg.criterion,
                                     messages |-> MessagesBefore(i)])]_vars
  /\ [](\A k \in 1..Len(calls) :
          calls[k].who = "criterion" => calls[k].messages = MessagesBefore(calls[k].seg))

\* the agent was invoked by a later segment, on a longer transcript, while the
\* evaluation started by an earlier aiEval was still pending
C14_Witness ==
  \E e \in 1..Len(emitted), a \in 1..Len(calls) :
    /\ emitted[e].entry.type = "eval"
    /\ segments[emitted[e].seg + 1].type = "aiEval"
    /\ promises[emitted[e].entry.evalResult].state = "pending"
    /\ calls[a].who = "agent"
    /\ calls[a].seg > emitted[e].seg
    /\ \E c \in 1..Len(calls) :
         /\ calls[c].who = "criterion" /\ calls[c].seg = emitted[e].seg
         /\ Len(calls[c].messages) < Len(MessagesOf(evaluatedSegmentPromises))

\* every call segment j made, in call order
AllCallsBy(j) == SelectSeq(calls, LAMBDA c : c.seg = j)

\* C15: each iteration of userSimulation calls the synthetic user, then the agent,
\* then `until`, once each; the agent gets the transcript the segment received
\* plus every turn made so far, the new user message included; `until` gets the
\* same plus the agent's answer; only the last `until` evaluation becomes an entry.
C15_IterationOrder ==
  \A j \in 0..(Len(segments) - 1) :
    IsSim(j) =>
      LET cs == AllCallsBy(j)
          turns == MessagesOf(EmittedBy(j))
          evals == SelectSeq(EmittedBy(j), LAMBDA e : e.type = "eval")
          untils == CallsBy(j, "until")
      IN /\ \A k \in 1..Len(cs) : cs[k].who = <<"user", "agent", "until">>[((k - 1) % 3) + 1]
         /\ \A n \in 1..Len(CallsBy(j, "agent")) :
              CallsBy(j, "agent")[n].messages = MessagesBefore(j) \o SubSeq(turns, 1, 2 * n - 1)
         /\ \A n \in 1..Len(untils) :
              untils[n].messages = MessagesBefore(j) \o SubSeq(turns, 1, 2 * n)
         /\ Len(evals) <= 1
         /\ Len(evals) = 1 =>
              /\ EmittedBy(j)[Len(EmittedBy(j))] = evals[1]
              /\ Len(turns) = 2 * Len(untils)
              /\ (EvalStatus(evals[1]) = "success") = untils[Len(untils)].success

\* a simulation that started on a non-empty transcript recorded its third
\* `until` evaluation, a successful one, and nothing of the first two
C15_Witness ==
  \E j \in 0..(Len(segments) - 1) :
    /\ IsSim(j)
    /\ MessagesBefore(j) # <<>>
    /\ Len(CallsBy(j, "until")) = 3
    /\ CallsBy(j, "until")[3].success
    /\ Len(EmittedBy(j)) = 7

\* the transcript with system and tool messages removed and the roles 'user' and
\* 'assistant' exchanged, contents and order kept
SwappedView(transcript) ==
  LET kept == SelectSeq(transcript, LAMBDA m : m.role \in {"user", "assistant"})
  IN [k \in 1..Len(kept) |->
        [role |-> IF kept[k].role = "user" THEN "assistant" ELSE "user",
         content |-> kept[k].content]]

\* C16: on each iteration the synthetic user is given the current transcript with
\* 'user' and 'assistant' exchanged, same contents and order, system and tool
\* messages removed; the agent is given the transcript as it is, system and tool
\* messages included.
C16_UserSeesSwappedRoles ==
  \A j \in 0..(Len(segments) - 1) :
    IsSim(j) =>
      LET turns == MessagesOf(EmittedBy(j))
      IN /\ \A n \in 1..Len(CallsBy(j, "user")) :
              CallsBy(j, "user")[n].messages
                = SwappedView(MessagesBefore(j) \o SubSeq(turns, 1, 2 * (n - 1)))
         /\ \A n \in 1..Len(CallsBy(j, "agent")) :
              SubSeq(CallsBy(j, "agent")[n].messages, 1, 2 * n - 1 + Len(MessagesBefore(j)))
                = MessagesBefore(j) \o SubSeq(turns, 1, 2 * n - 1)

\* the second iteration of a simulation that follows a tool message: the user saw
\* two swapped messages, the agent the three originals and the new user message
C16_Witness ==
  \E j \in 0..(Len(segments) - 1) :
    /\ IsSim(j)
    /\ MessagesBefore(j) = <<ToolMessage>>
    /\ Len(CallsBy(j, "agent")) = 2
    /\ Len(CallsBy(j, "user")[2].messages) = 2
    /\ CallsBy(j, "user")[2].messages[1].role = "assistant"
    /\ CallsBy(j, "agent")[2].messages[1] = ToolMessage
    /\ Len(CallsBy(j, "agent")[2].messages) = 4

\* the calls of the agent made so far, over all segments
AgentCalls == SelectSeq(calls, LAMBDA c : c.who = "agent")

\* C17: a factory given as `agent` is called exactly once per run, before the
\* first segment's evaluate starts, and the one agent it resolved to is the agent
\* every segment invokes; a rejection of the factory aborts the run before any
\* segment has run.
C17_FactoryResolvedOnce ==
  agent = "factory" =>
    /\ Len(CallsOf("factory")) <= 1
    /\ pc = "init" => calls = <<>> /\ emitted = <<>> /\ i = 0
    /\ pc # "init" => Len(CallsOf("factory")) = 1 /\ calls[1].who = "factory"
    /\ \A k \in 1..Len(AgentCalls) : AgentCalls[k].agent = AgentInstance(1)
    /\ err = "factory" =>
         /\ pc = "aborted"
         /\ Len(calls) = 1
         /\ emitted = <<>>
         /\ i = 0
         /\ report = <<>>

\* a finished run whose agent came from the factory and was invoked by two
\* different segments
C17_Witness ==
  /\ agent = "factory"
  /\ pc = "done"
  /\ \E a, b \in 1..Len(AgentCalls) :
       /\ AgentCalls[a].seg # AgentCalls[b].seg
       /\ AgentCalls[a].agent = AgentInstance(1)
       /\ AgentCalls[b].agent = AgentInstance(1)

\* some promise is rejected by the step
RejectsPromise ==
  \E p \in 1..Len(promises) :
    promises[p].state = "pending" /\ promises'[p].state = "rejected"

\* segment j made the calls its kind of segment makes when it runs
HasRun(j) ==
  LET sg == segments[j + 1]
  IN /\ sg.type = "agentResponse" => Len(CallsBy(j, "agent")) = 1
     /\ sg.type = "aiEval" => Len(CallsBy(j, "criterion")) = 1
     /\ sg.type = "userSimulation" /\ AskedTurns(j) >= 1 =>
          /\ Len(CallsBy(j, "user")) >= 1
          /\ Len(CallsBy(j, "agent")) >= 1
     /\ sg.type = "message" => Len(EmittedBy(j)) = 1

\* C18: the rejection of a criterion promise carried by an aiEval segment does not
\* stop the segment loop: the step that rejects it changes neither the position
\* of the run nor its error, a run with a rejected carried promise stops only with
\* an error, that of the criterion comes from the final resolution pass once
\* every segment has run (agent and synthetic user invoked), and no report is
\* returned.
C18_CriterionRejectionIsLate ==
  /\ [][RejectsPromise => UNCHANGED <<pc, err, i, calls, emitted, report>>]_vars
  /\ [][err' = "criterion" /\ err # "criterion" => pc = "resolve" /\ pc' = "aborted"]_vars
  /\ []((\E p \in 1..Len(promises) : promises[p].state = "rejected") => pc # "exited")
  /\ [](err = "criterion" =>
          /\ pc = "aborted"
          /\ i = Len(segments)
          /\ \A j \in 0..(Len(segments) - 1) : HasRun(j)
          /\ \E p \in AwaitedPromises : promises[p].state = "rejected"
          /\ report = <<>>)
  /\ [](pc = "done" => \A p \in AwaitedPromises : promises[p].state = "fulfilled")

\* a criterion of tools-called.ts has been evaluated
ToolsEvaluated == fn \in {"aiToolsCalled", "aiToolCalls"}

\* the evaluated criterion resolved with status st
ResolvedWith(st) == ret.threw = <<>> /\ ret.result # <<>> /\ ret.result[1].status = st

\* the names of the tool calls extracted from the messages of the input
ExtractedNames ==
  LET extracted == extractToolCallsFromMessages(arg.messages).calls
  IN [k \in 1..Len(extracted) |-> extracted[k].name]

\* C19: an exception thrown by a user-supplied assertion function never leaves
\* evaluate of aiToolsCalled or aiToolCalls: the criterion resolves with status
\* 'failure', a reason and the thrown value in `error`; an assertion that returns
\* false in aiToolsCalled gives status 'failure' too.
C19_AssertionExceptionsAreCaught ==
  ToolsEvaluated =>
    /\ ret.calls # <<>> => ret.threw = <<>> /\ ret.result # <<>>
    /\ \A k \in 1..Len(ret.calls) :
         /\ ret.calls[k].assertion = "throw" =>
              /\ ResolvedWith("failure")
              /\ Truthy(ret.result[1].reason)
              /\ ret.result[1].error = <<Thrown(ret.calls[k].name)>>
         /\ ret.calls[k].assertion = "false" /\ fn = "aiToolsCalled" =>
              ResolvedWith("failure")
    /\ ( /\ fn = "aiToolsCalled"
         /\ ~arg.assertOrder
         /\ arg.toolCalls # <<>>
         /\ arg.toolCalls[Len(arg.toolCalls)].assertion \in {<<"throw">>, <<"false">>}
         /\ ~extractToolCallsFromMessages(arg.messages).threw
         /\ \E k \in 1..Len(ExtractedNames) :
              ExtractedNames[k] = arg.toolCalls[Len(arg.toolCalls)].name )
       => /\ ResolvedWith("failure")
          /\ Len(ret.calls) = 1
          /\ arg.toolCalls[Len(arg.toolCalls)].assertion = <<"throw">> =>
               ret.result[1].error = <<Thrown(arg.toolCalls[Len(arg.toolCalls)].name)>>
    /\ ( /\ fn = "aiToolCalls"
         /\ arg.assertion = "throw"
         /\ ~extractToolCallsFromMessages(arg.messages).threw )
       => /\ ResolvedWith("failure")
          /\ Truthy(ret.result[1].reason)
          /\ ret.result[1].error = <<Thrown("assertion")>>

\* aiToolsCalled called two assertion functions, the second one threw, and the
\* criterion resolved with a failure that carries the thrown value
C19_Witness ==
  /\ fn = "aiToolsCalled"
  /\ Len(ret.calls) = 2
  /\ ret.calls[2].assertion = "throw"
  /\ ResolvedWith("failure")
  /\ ret.result[1].error = <<Thrown(ret.calls[2].name)>>

\* the elements of `sub` occur in `q`, in the order they have in `sub`
RECURSIVE IsSubsequence(_, _)
IsSubsequence(sub, q) ==
  IF sub = <<>> THEN TRUE
  ELSE IF q = <<>> THEN FALSE
  ELSE IF Head(sub) = Head(q) THEN IsSubsequence(Tail(sub), Tail(q))
  ELSE IsSubsequence(sub, Tail(q))

\* C20: with assertOrder set and no assertion functions, aiToolsCalled returns
\* 'success' exactly when the tool calls extracted from the messages contain the
\* asserted tool names in the order of the `toolCalls` array, every failure has
\* output.toolCallOrderSatisfied = false, and with an empty `toolCalls` array the
\* result is 'success' for any messages.
C20_SuccessIffNamesInOrder ==
  ( /\ fn = "aiToolsCalled"
    /\ arg.assertOrder
    /\ \A k \in 1..Len(arg.toolCalls) : arg.toolCalls[k].assertion = <<>> )
  => IF arg.toolCalls = <<>> THEN ResolvedWith("success")
     ELSE ~extractToolCallsFromMessages(arg.messages).threw =>
            /\ ret.threw = <<>> /\ ret.result # <<>>
            /\ ResolvedWith("success")
                 <=> IsSubsequence([k \in 1..Len(arg.toolCalls) |-> arg.toolCalls[k].name],
                                   ExtractedNames)
            /\ ResolvedWith("failure") => ~ret.result[1].output.toolCallOrderSatisfied

====
